---- MODULE Spec2Model ----
(***************************************************************************)
(* A state-machine model of fizz::client::AsyncFizzClientT                 *)
(* (fizz/client/AsyncFizzClient-inl.h): the client session orchestrator    *)
(* that binds a transport to the TLS 1.3 protocol engine (fizzClient_).    *)
(*                                                                         *)
(* Every member function and every action visitor is a pure operator on a  *)
(* record s holding the session's fields; an operator returns the record   *)
(* after the call.  Calls nest exactly as in the source, so a callback     *)
(* that re-enters the session is function composition.  The actions at the *)
(* end of the module apply one entry point to the current state.           *)
(*                                                                         *)
(* folly::Optional<T> is a sequence of length 0 or 1, a raw pointer is 0   *)
(* (nullptr) or a positive identifier, an IOBuf chain is a sequence of     *)
(* buffers [id, len], an exception is the name of its type.                *)
(***************************************************************************)
EXTENDS Integers, Sequences, FiniteSets, TLC

\* ------------------------------------------------------------- bounds
\* Application writes submitted in one run; a write's identifier is its
\* position in submission order and doubles as its WriteCallback pointer.
MaxWrites == 3
\* connect() calls in one run; each registers a fresh observer identifier.
MaxConnects == 1
\* setReplaySafetyCallback() registrations in one run.
MaxReplayRegs == 1
\* close(), closeWithReset() and closeNow() calls the application makes in one run.
MaxCloses == 1
\* Calls and events the model follows after the session has failed or closed.
MaxStepsAfterError == 1
\* Nesting depth of calls the application makes from inside an observer.
MaxReentry == 1
\* Early writes the engine gives back (ReportEarlyWriteFailed).
MaxEarlyWriteFailed == 1

\* Payload sizes the application writes, and budgets the engine grants.
Sizes == {0, 40, 80}
Budgets == {80, 100}
\* Identities used as SNI / PSK identity.
Hosts == {"h1"}
\* What an observer does from inside its notification.
ReentrantCalls == {"none", "closeNow"}
\* remainingEarlyData is a 32-bit unsigned counter: arithmetic is modulo
\* 2^32.  TLC's integers are the signed 32-bit ones, so a counter holds the
\* signed reading of its 32 bits: a value below 2^31 is itself, a value v
\* from 2^31 on is held as v - 2^32 (a negative number).
Int32Max == 2147483647
Int32Min == (-Int32Max) - 1

FatalConnectionError == "FatalConnectionError"
AutomaticResend == "AutomaticResend"

\* ------------------------------------------------------------ helpers
hasValue(opt) == Len(opt) > 0

RECURSIVE computeChainDataLength(_)
computeChainDataLength(buf) ==
  IF buf = <<>> THEN 0 ELSE Head(buf).len + computeChainDataLength(Tail(buf))

\* The single-buffer chain the application passes for write number id.
Payload(id, size) == <<[id |-> id, len |-> size]>>

\* The bytes of a chain: its non-empty buffers in order.
Content(buf) == SelectSeq(buf, LAMBDA b : b.len > 0)

\* An observable effect of the running call, in program order.
Emit(s, e, id, x) == [s EXCEPT !.trace = Append(@, [e |-> e, id |-> id, x |-> x])]

\* The event that opens a call from the event loop.
Call(s, name) == Emit(s, name, 0, "")

\* ------------------------------------------------- queries
isReplaySafe(s) == ~hasValue(s.earlyDataState_)

TransportGood(s) == s.transport = "good"
TransportError(s) == s.transport = "error"
inErrorState(s) == s.fizzClient_.inError

error(s) == TransportError(s) \/ inErrorState(s)

good(s) == ~error(s) /\ TransportGood(s)

connecting(s) == hasValue(s.callback_) \/ s.transport = "connecting"

\* ------------------------------------------------- collaborators
\* AsyncFizzBase, the engine (FizzClient) and the transport are not part of
\* AsyncFizzClient-inl.h; they are modelled at their interface.
startHandshakeTimeout(s) == Emit([s EXCEPT !.handshakeTimeout_ = TRUE], "startHandshakeTimeout", 0, "")

cancelHandshakeTimeout(s) == Emit([s EXCEPT !.handshakeTimeout_ = FALSE], "cancelHandshakeTimeout", 0, "")

startTransportReads(s) == Emit([s EXCEPT !.reads = TRUE], "startTransportReads", 0, "")

TransportClose(s, how) == Emit([s EXCEPT !.transport = "closed"], how, 0, "")

deliverError(s, ex, closeTransport) ==
  LET s1 == Emit([s EXCEPT !.reads = FALSE], "deliverError", 0, ex)
  IN IF closeTransport THEN TransportClose(s1, "transport.close") ELSE s1

getPsk(s, identity) == identity \in s.pskCache

removePsk(s, identity) == Emit([s EXCEPT !.pskCache = @ \ {identity}], "removePsk", 0, identity)

putPsk(s, identity) == Emit([s EXCEPT !.pskCache = @ \cup {identity}], "putPsk", 0, identity)

waitForData(s) == Emit(s, "waitForData", 0, "")

\* fizzClient_.appWrite / earlyAppWrite: the engine takes the write over.
appWrite(s, w) ==
  Emit([s EXCEPT !.engineLog = Append(@, [kind |-> "app", id |-> w.callback, data |-> w.data])],
       "appWrite", w.callback, "")

earlyAppWrite(s, w) ==
  Emit([s EXCEPT !.engineLog = Append(@, [kind |-> "early", id |-> w.callback, data |-> w.data])],
       "earlyAppWrite", w.callback, "")

appClose(s) == Emit([s EXCEPT !.fizzClient_.closed = TRUE, !.fizzClient_.inError = TRUE], "appClose", 0, "")

moveToErrorState(s, ex) == Emit([s EXCEPT !.fizzClient_.inError = TRUE], "moveToErrorState", 0, ex)

earlyParametersMatch(paramsMatch) == paramsMatch

\* WriteCallback::writeErr on the callback of write number callback.
RECURSIVE SubmitWrite(_, _)

\* An application callback that calls write() on the session before it
\* returns.  s.reWrite holds the size the callbacks of the current step pass
\* (none: they return without touching the session); the nested write goes
\* through the public write path, writeAppData (lines 274-329).
ReenterWrite(s) ==
  IF hasValue(s.reWrite) /\ s.depth < MaxReentry /\ s.nWrites < MaxWrites
  THEN [SubmitWrite([s EXCEPT !.depth = @ + 1], s.reWrite[1]) EXCEPT !.depth = s.depth]
  ELSE s

writeErr(s, callback, ex) ==
  ReenterWrite(Emit([s EXCEPT !.writeLog = Append(@, callback)], "writeErr", callback, ex))

\* WriteCallback::writeSuccess on the callback of write number callback.
writeSuccess(s, callback) ==
  ReenterWrite(Emit([s EXCEPT !.successLog = Append(@, callback)], "writeSuccess", callback, ""))

\* Unsigned subtraction on remainingEarlyData: a - b modulo 2^32, on the
\* signed readings, without leaving the 32-bit range on the way.
SubU(a, b) ==
  IF b >= 0
  THEN IF a < Int32Min + b THEN ((a - Int32Min) + (Int32Max - b)) + 1 ELSE a - b
  ELSE IF a > Int32Max + b THEN ((a - Int32Max) + (Int32Min - b)) - 1 ELSE a - b

\* size > remainingEarlyData (line 292): size is a size_t below 2^31, the
\* counter is compared as the unsigned value it holds.
ExceedsU(size, remaining) == remaining >= 0 /\ size > remaining

\* ------------------------------------------------- writeAppData
\* Mutant: the size of the payload is not compared with the budget.
writeAppData_Wrapping(s, callback, buf) ==
  IF error(s)
  THEN IF callback # 0 THEN writeErr(s, callback, "INVALID_STATE") ELSE s
  ELSE IF hasValue(s.earlyDataState_)
  THEN LET eds == s.earlyDataState_[1]
           size == computeChainDataLength(buf)
           w == [callback |-> callback, data |-> buf]
       IN IF eds.pendingAppWrites # <<>>
          THEN [s EXCEPT !.earlyDataState_ =
                  <<[eds EXCEPT !.remainingEarlyData = 0,
                                !.pendingAppWrites = Append(@, w)]>>]
          ELSE LET resent == IF s.earlyDataRejectionPolicy_ = AutomaticResend
                             THEN eds.resendBuffer \o buf
                             ELSE eds.resendBuffer
                   s1 == [s EXCEPT !.earlyDataState_ =
                            <<[eds EXCEPT !.resendBuffer = resent,
                                          !.remainingEarlyData = SubU(@, size)]>>]
               IN earlyAppWrite(s1, w)
  ELSE appWrite(s, [callback |-> callback, data |-> buf])

\* Mutant: an early write leaves the budget as it was.
writeAppData_NoSubtract(s, callback, buf) ==
  IF error(s)
  THEN IF callback # 0 THEN writeErr(s, callback, "INVALID_STATE") ELSE s
  ELSE IF hasValue(s.earlyDataState_)
  THEN LET eds == s.earlyDataState_[1]
           size == computeChainDataLength(buf)
           w == [callback |-> callback, data |-> buf]
       IN IF eds.pendingAppWrites # <<>> \/ ExceedsU(size, eds.remainingEarlyData)
          THEN [s EXCEPT !.earlyDataState_ =
                  <<[eds EXCEPT !.remainingEarlyData = 0,
                                !.pendingAppWrites = Append(@, w)]>>]
          ELSE LET resent == IF s.earlyDataRejectionPolicy_ = AutomaticResend
                             THEN eds.resendBuffer \o buf
                             ELSE eds.resendBuffer
                   s1 == [s EXCEPT !.earlyDataState_ =
                            <<[eds EXCEPT !.resendBuffer = resent]>>]
               IN earlyAppWrite(s1, w)
  ELSE appWrite(s, [callback |-> callback, data |-> buf])

\* Mutant: a write does not look at error().
writeAppData_IgnoreError(s, callback, buf) ==
  IF hasValue(s.earlyDataState_)
  THEN LET eds == s.earlyDataState_[1]
           size == computeChainDataLength(buf)
           w == [callback |-> callback, data |-> buf]
       IN IF eds.pendingAppWrites # <<>> \/ ExceedsU(size, eds.remainingEarlyData)
          THEN [s EXCEPT !.earlyDataState_ =
                  <<[eds EXCEPT !.remainingEarlyData = 0,
                                !.pendingAppWrites = Append(@, w)]>>]
          ELSE LET resent == IF s.earlyDataRejectionPolicy_ = AutomaticResend
                             THEN eds.resendBuffer \o buf
                             ELSE eds.resendBuffer
                   s1 == [s EXCEPT !.earlyDataState_ =
                            <<[eds EXCEPT !.resendBuffer = resent,
                                          !.remainingEarlyData = SubU(@, size)]>>]
               IN earlyAppWrite(s1, w)
  ELSE appWrite(s, [callback |-> callback, data |-> buf])

writeAppData(s, callback, buf) ==
  IF error(s)
  THEN IF callback # 0 THEN writeErr(s, callback, "INVALID_STATE") ELSE s
  ELSE IF hasValue(s.earlyDataState_)
  THEN LET eds == s.earlyDataState_[1]
           size == computeChainDataLength(buf)
           w == [callback |-> callback, data |-> buf]
       IN IF eds.pendingAppWrites # <<>> \/ ExceedsU(size, eds.remainingEarlyData)
          THEN [s EXCEPT !.earlyDataState_ =
                  <<[eds EXCEPT !.remainingEarlyData = 0,
                                !.pendingAppWrites = Append(@, w)]>>]
          ELSE LET resent == IF s.earlyDataRejectionPolicy_ = AutomaticResend
                             THEN eds.resendBuffer \o buf
                             ELSE eds.resendBuffer
                   s1 == [s EXCEPT !.earlyDataState_ =
                            <<[eds EXCEPT !.resendBuffer = resent,
                                          !.remainingEarlyData = SubU(@, size)]>>]
               IN earlyAppWrite(s1, w)
  ELSE appWrite(s, [callback |-> callback, data |-> buf])

\* The application submits its next write: write number s.nWrites + 1.
\* The call's event carries the payload size.
SubmitWrite(s, size) ==
  LET id == s.nWrites + 1
  IN writeAppData(Emit([s EXCEPT !.nWrites = id], "write", size, ""),
                  id, Payload(id, size))

\* ------------------------------------------------- error fan-out
RECURSIVE deliverAllErrors(_, _, _)

closeNow(s) ==
  LET s1 == IF TransportGood(s) THEN appClose(s) ELSE s
      s2 == deliverAllErrors(s1, "END_OF_FILE", FALSE)
  IN TransportClose(s2, "transport.closeNow")

closeWithReset(s) ==
  LET s1 == IF TransportGood(s) THEN appClose(s) ELSE s
      s2 == deliverAllErrors(s1, "END_OF_FILE", FALSE)
  IN TransportClose(s2, "transport.closeWithReset")

close(s) ==
  IF TransportGood(s)
  THEN appClose(s)
  ELSE TransportClose(deliverAllErrors(s, "END_OF_FILE", FALSE), "transport.close")

\* What the application does from inside a handshake observer: nothing, or
\* one call back into the session.  cb.re is the observer's behaviour.
Reenter(s, cb) ==
  IF s.depth >= MaxReentry THEN s
  ELSE IF cb.re = "closeNow"
  THEN [closeNow([s EXCEPT !.depth = @ + 1]) EXCEPT !.depth = s.depth]
  ELSE ReenterWrite(s)

\* The observer's notification (fizzHandshakeSuccess / fizzHandshakeError,
\* connectSuccess / connectErr).  The log keeps what callback_ held when
\* the observer was entered.
InvokeObserver(s, cb, kind, ex) ==
  LET s1 == [s EXCEPT !.hsLog = Append(@, [obs |-> cb.obs, kind |-> kind,
                                            sinkEmpty |-> ~hasValue(s.callback_)])]
  IN Reenter(Emit(s1, "observer." \o kind, cb.obs, ex), cb)

IsAsyncSocketException(ex) == ex # "FizzException"

\* Mutant: the observer is notified while callback_ still holds it.
deliverHandshakeError_SinkKept(s, ex) ==
  IF hasValue(s.callback_)
  THEN LET s1 == cancelHandshakeTimeout(s)
           cb == s1.callback_[1]
           s2 == InvokeObserver(s1, cb, "error",
                   IF cb.shape = "HandshakeCallback" \/ IsAsyncSocketException(ex)
                   THEN ex ELSE "SSL_ERROR")
       IN [s2 EXCEPT !.callback_ = <<>>]
  ELSE s

deliverHandshakeError(s, ex) ==
  IF hasValue(s.callback_)
  THEN LET s1 == cancelHandshakeTimeout(s)
           cb == s1.callback_[1]
           s2 == [s1 EXCEPT !.callback_ = <<>>]
       IN InvokeObserver(s2, cb, "error",
            IF cb.shape = "HandshakeCallback" \/ IsAsyncSocketException(ex)
            THEN ex ELSE "SSL_ERROR")
  ELSE s

\* Mutant: the queue is emptied without completing any callback.
FailPendingWrites_Silent(s, ex) ==
  IF hasValue(s.earlyDataState_)
  THEN [s EXCEPT !.earlyDataState_[1].pendingAppWrites = <<>>]
  ELSE s

\* The while loop of deliverAllErrors.
RECURSIVE FailPendingWrites(_, _)
FailPendingWrites(s, ex) ==
  IF hasValue(s.earlyDataState_) /\ s.earlyDataState_[1].pendingAppWrites # <<>>
  THEN LET w == Head(s.earlyDataState_[1].pendingAppWrites)
           s1 == [s EXCEPT !.earlyDataState_[1].pendingAppWrites = Tail(@)]
       IN FailPendingWrites(IF w.callback # 0 THEN writeErr(s1, w.callback, ex) ELSE s1, ex)
  ELSE s

\* Mutant: replaySafetyCallback_ survives the error fan-out.
deliverAllErrors_KeepReplayCallback(s, ex, closeTransport) ==
  LET s1 == deliverHandshakeError(Emit(s, "deliverAllErrors", 0, ex), ex)
      s3 == FailPendingWrites(s1, ex)
      s4 == moveToErrorState(s3, ex)
  IN deliverError(s4, ex, closeTransport)

deliverAllErrors(s, ex, closeTransport) ==
  LET s1 == deliverHandshakeError(Emit(s, "deliverAllErrors", 0, ex), ex)
      s2 == IF s1.replaySafetyCallback_ # 0
            THEN Emit([s1 EXCEPT !.replaySafetyCallback_ = 0],
                      "replaySafetyCallback.clear", s1.replaySafetyCallback_, "")
            ELSE s1
      s3 == FailPendingWrites(s2, ex)
      s4 == moveToErrorState(s3, ex)
  IN deliverError(s4, ex, closeTransport)

transportError(s, ex) == deliverAllErrors(s, ex, TRUE)

connectErr(s, ex) == deliverAllErrors(s, ex, FALSE)

\* AsyncFizzBase's handshake timer expired: a TIMED_OUT transport error.
handshakeTimeoutExpired(s) == transportError([s EXCEPT !.handshakeTimeout_ = FALSE], "TIMED_OUT")

\* ------------------------------------------------- action visitors
OnReportError(s) ==
  LET s1 == deliverHandshakeError(s, "FizzException")
  IN deliverAllErrors(s1, "SSL_ERROR", TRUE)

\* The early write the engine gives back carries its callback.
OnReportEarlyWriteFailed(s, write) ==
  IF write.callback # 0 THEN writeSuccess(s, write.callback) ELSE s

OnWaitForData(s) ==
  LET s1 == waitForData(s)
  IN IF hasValue(s1.callback_) THEN startTransportReads(s1) ELSE s1

OnNewCachedPsk(s) ==
  IF hasValue(s.pskIdentity_) THEN putPsk(s, s.pskIdentity_[1]) ELSE s

OnReportEarlyHandshakeSuccess(s, maxEarlyDataSize) ==
  LET s1 == [s EXCEPT !.earlyDataState_ =
               <<[remainingEarlyData |-> maxEarlyDataSize,
                  pendingAppWrites |-> <<>>,
                  resendBuffer |-> <<>>]>>]
  IN IF hasValue(s1.callback_)
     THEN LET cb == s1.callback_[1]
              s2 == [s1 EXCEPT !.callback_ = <<>>]
          IN InvokeObserver(s2, cb, "success", "")
     ELSE s1

\* folly::IOBufQueue::empty(): the queue holds no byte.
IOBufQueueEmpty(q) == computeChainDataLength(q) = 0

\* Mutant: a rejection is never fatal.
handleEarlyReject_NeverFatal(s, paramsMatch) ==
  IF s.earlyDataRejectionPolicy_ = FatalConnectionError
  THEN [s |-> s, ex |-> <<>>]
  ELSE IF earlyParametersMatch(paramsMatch)
  THEN IF ~IOBufQueueEmpty(s.earlyDataState_[1].resendBuffer)
       THEN LET resend == [callback |-> 0, data |-> s.earlyDataState_[1].resendBuffer]
                s1 == [s EXCEPT !.earlyDataState_[1].resendBuffer = <<>>]
            IN [s |-> appWrite(s1, resend), ex |-> <<>>]
       ELSE [s |-> s, ex |-> <<>>]
  ELSE [s |-> s, ex |-> <<"EARLY_DATA_REJECTED">>]

\* Mutant: the early data is resent whether or not the parameters match.
handleEarlyReject_MismatchResends(s, paramsMatch) ==
  IF s.earlyDataRejectionPolicy_ = FatalConnectionError
  THEN [s |-> s, ex |-> <<"EARLY_DATA_REJECTED">>]
  ELSE IF ~IOBufQueueEmpty(s.earlyDataState_[1].resendBuffer)
  THEN LET resend == [callback |-> 0, data |-> s.earlyDataState_[1].resendBuffer]
           s1 == [s EXCEPT !.earlyDataState_[1].resendBuffer = <<>>]
       IN [s |-> appWrite(s1, resend), ex |-> <<>>]
  ELSE [s |-> s, ex |-> <<>>]

\* Mutant: the resend buffer is dropped instead of being written.
handleEarlyReject_NoResend(s, paramsMatch) ==
  IF s.earlyDataRejectionPolicy_ = FatalConnectionError
  THEN [s |-> s, ex |-> <<"EARLY_DATA_REJECTED">>]
  ELSE IF earlyParametersMatch(paramsMatch)
  THEN [s |-> [s EXCEPT !.earlyDataState_[1].resendBuffer = <<>>], ex |-> <<>>]
  ELSE [s |-> s, ex |-> <<"EARLY_DATA_REJECTED">>]

\* Returns the session after the call and the optional exception.
handleEarlyReject(s, paramsMatch) ==
  IF s.earlyDataRejectionPolicy_ = FatalConnectionError
  THEN [s |-> s, ex |-> <<"EARLY_DATA_REJECTED">>]
  ELSE IF earlyParametersMatch(paramsMatch)
  THEN IF ~IOBufQueueEmpty(s.earlyDataState_[1].resendBuffer)
       THEN LET resend == [callback |-> 0, data |-> s.earlyDataState_[1].resendBuffer]
                s1 == [s EXCEPT !.earlyDataState_[1].resendBuffer = <<>>]
            IN [s |-> appWrite(s1, resend), ex |-> <<>>]
       ELSE [s |-> s, ex |-> <<>>]
  ELSE [s |-> s, ex |-> <<"EARLY_DATA_REJECTED">>]

\* Mutant: the queue is drained from its back.
RECURSIVE DrainPendingWrites_Lifo(_)
DrainPendingWrites_Lifo(s) ==
  IF s.earlyDataState_[1].pendingAppWrites # <<>>
  THEN LET q == s.earlyDataState_[1].pendingAppWrites
           w == q[Len(q)]
           s1 == [s EXCEPT !.earlyDataState_[1].pendingAppWrites = SubSeq(q, 1, Len(q) - 1)]
       IN DrainPendingWrites_Lifo(appWrite(s1, w))
  ELSE s

\* The while loop of the ReportHandshakeSuccess visitor.
RECURSIVE DrainPendingWrites(_)
DrainPendingWrites(s) ==
  IF s.earlyDataState_[1].pendingAppWrites # <<>>
  THEN LET w == Head(s.earlyDataState_[1].pendingAppWrites)
           s1 == [s EXCEPT !.earlyDataState_[1].pendingAppWrites = Tail(@)]
       IN DrainPendingWrites(appWrite(s1, w))
  ELSE s

\* ReplaySafetyCallback::onReplaySafe.  The log keeps what
\* replaySafetyCallback_ held when the observer was entered.
onReplaySafe(s, callback) ==
  ReenterWrite(
    Emit([s EXCEPT !.replayLog = Append(@, [reg |-> callback, field |-> s.replaySafetyCallback_])],
         "onReplaySafe", callback, ""))

\* The tail of the ReportHandshakeSuccess visitor: the two observers.
NotifyHandshakeSuccess(s) ==
  LET s1 == IF hasValue(s.callback_)
            THEN LET cb == s.callback_[1]
                 IN InvokeObserver([s EXCEPT !.callback_ = <<>>], cb, "success", "")
            ELSE s
  IN IF s1.replaySafetyCallback_ # 0
     THEN LET callback == s1.replaySafetyCallback_
          IN onReplaySafe([s1 EXCEPT !.replaySafetyCallback_ = 0], callback)
     ELSE s1

\* Mutant: the rejection handling runs whether or not the early data was
\* accepted.
OnReportHandshakeSuccess_AlwaysReject(s, earlyDataAccepted, paramsMatch) ==
  LET s0 == cancelHandshakeTimeout(s)
  IN IF hasValue(s0.earlyDataState_)
     THEN LET r == handleEarlyReject(s0, paramsMatch)
          IN IF hasValue(r.ex)
             THEN LET s1 == IF hasValue(r.s.pskIdentity_)
                            THEN removePsk(r.s, r.s.pskIdentity_[1])
                            ELSE r.s
                      s2 == deliverAllErrors(s1, r.ex[1], FALSE)
                  IN TransportClose(s2, "transport.closeNow")
             ELSE LET s1 == DrainPendingWrites(r.s)
                  IN NotifyHandshakeSuccess([s1 EXCEPT !.earlyDataState_ = <<>>])
     ELSE NotifyHandshakeSuccess(s0)

OnReportHandshakeSuccess(s, earlyDataAccepted, paramsMatch) ==
  LET s0 == cancelHandshakeTimeout(s)
  IN IF hasValue(s0.earlyDataState_)
     THEN LET r == IF ~earlyDataAccepted
                   THEN handleEarlyReject(s0, paramsMatch)
                   ELSE [s |-> s0, ex |-> <<>>]
          IN IF hasValue(r.ex)
             THEN LET s1 == IF hasValue(r.s.pskIdentity_)
                            THEN removePsk(r.s, r.s.pskIdentity_[1])
                            ELSE r.s
                      s2 == deliverAllErrors(s1, r.ex[1], FALSE)
                  IN TransportClose(s2, "transport.closeNow")
             ELSE LET s1 == DrainPendingWrites(r.s)
                  IN NotifyHandshakeSuccess([s1 EXCEPT !.earlyDataState_ = <<>>])
     ELSE NotifyHandshakeSuccess(s0)

\* ------------------------------------------------- connect
\* fizzClient_.connect: the engine accepts one connect; any later one is an
\* event it does not expect, which it reports as an error at once.
FizzConnect(s, cachedPsk) ==
  IF ~s.fizzClient_.connected
  THEN Emit([s EXCEPT !.fizzClient_.connected = TRUE, !.fizzClient_.psk = cachedPsk],
            "fizzClient.connect", 0, "")
  ELSE OnReportError(Emit([s EXCEPT !.fizzClient_.errReported = TRUE],
                          "fizzClient.connect", 0, "again"))

connect(s, cb, sni, pskIdentity, timeout) ==
  LET s0 == [s EXCEPT !.callback_ = <<cb>>]
  IN IF ~TransportGood(s0)
     THEN deliverAllErrors(s0, "NOT_OPEN", FALSE)
     ELSE LET s1 == [s0 EXCEPT !.sni_ = sni, !.pskIdentity_ = pskIdentity]
              s2 == IF timeout THEN startHandshakeTimeout(s1) ELSE s1
              s3 == startTransportReads(s2)
              cachedPsk == hasValue(pskIdentity) /\ getPsk(s3, pskIdentity[1])
          IN FizzConnect(s3, cachedPsk)

\* folly::AsyncSocket::connect on the underlying socket: an unconnected
\* socket starts connecting, any other fails the connect at once.
SocketConnect(s) ==
  IF s.transport = "unconnected"
  THEN Emit([s EXCEPT !.transport = "connecting"], "socket.connect", 0, "")
  ELSE connectErr(s, "ALREADY_OPEN")

\* Mutant: the engine is connected as soon as the socket connect is started.
connectSocket_EagerEngine(s, cb, sni, pskIdentity, totalTimeout, underlyingSocket) ==
  LET s1 == [s EXCEPT !.callback_ = <<cb>>, !.sni_ = sni, !.pskIdentity_ = pskIdentity]
      s2 == IF totalTimeout THEN startHandshakeTimeout(s1) ELSE s1
  IN IF underlyingSocket
     THEN LET s3 == SocketConnect(s2)
          IN FizzConnect(s3, hasValue(pskIdentity) /\ getPsk(s3, pskIdentity[1]))
     ELSE deliverAllErrors(s2, "BAD_ARGS", FALSE)

connectSocket(s, cb, sni, pskIdentity, totalTimeout, underlyingSocket) ==
  LET s1 == [s EXCEPT !.callback_ = <<cb>>, !.sni_ = sni, !.pskIdentity_ = pskIdentity]
      s2 == IF totalTimeout THEN startHandshakeTimeout(s1) ELSE s1
  IN IF underlyingSocket
     THEN SocketConnect(s2)
     ELSE deliverAllErrors(s2, "BAD_ARGS", FALSE)

connectSuccess(s) ==
  LET s1 == startTransportReads(s)
      cachedPsk == hasValue(s1.pskIdentity_) /\ getPsk(s1, s1.pskIdentity_[1])
  IN FizzConnect(s1, cachedPsk)

setReplaySafetyCallback(s, callback) == [s EXCEPT !.replaySafetyCallback_ = callback]

\* ------------------------------------------------------------- state
VARIABLES
  callback_,                 \* Optional: the handshake observer [shape, obs, re]
  sni_,                      \* Optional server name
  pskIdentity_,              \* Optional PSK identity
  earlyDataState_,           \* Optional [remainingEarlyData, pendingAppWrites, resendBuffer]
  replaySafetyCallback_,     \* 0 or the registered replay-safety observer
  earlyDataRejectionPolicy_, \* fixed at construction
  handshakeTimeout_,         \* the handshake timer is scheduled
  reads,                     \* the transport read callback is installed
  transport,                 \* "unconnected", "connecting", "good", "error", "closed"
  pskCache,                  \* identities with a cached PSK in fizzContext_
  fizzClient_,               \* the engine: what it was told and what it reported
  hsLog,                     \* history: notifications of handshake observers
  replayLog,                 \* history: notifications of replay-safety observers
  engineLog,                 \* history: writes handed to the engine, in order
  writeLog,                  \* history: write callbacks failed by the session (writeErr)
  successLog,                \* history: write callbacks completed by the session (writeSuccess)
  nWrites,                   \* history: writes submitted
  nCloses,                   \* history: close calls made
  nAfter,                    \* history: steps taken since the session failed or closed
  nObs,                      \* history: connect() calls made
  nReg,                      \* history: replay-safety registrations made
  granted,                   \* history: maxEarlyDataSize of the early success
  trace                      \* the last call and its effects, in program order

vars == <<callback_, sni_, pskIdentity_, earlyDataState_, replaySafetyCallback_,
          earlyDataRejectionPolicy_, handshakeTimeout_, reads, transport, pskCache,
          fizzClient_, hsLog, replayLog, engineLog, writeLog, successLog, nWrites,
          nCloses,
          nAfter, nObs, nReg,
          granted, trace>>

\* The session as the record the operators above work on, at the start of
\* a call from the event loop.
Cur ==
  [callback_ |-> callback_, sni_ |-> sni_, pskIdentity_ |-> pskIdentity_,
   earlyDataState_ |-> earlyDataState_, replaySafetyCallback_ |-> replaySafetyCallback_,
   earlyDataRejectionPolicy_ |-> earlyDataRejectionPolicy_,
   handshakeTimeout_ |-> handshakeTimeout_, reads |-> reads, transport |-> transport,
   pskCache |-> pskCache, fizzClient_ |-> fizzClient_, hsLog |-> hsLog,
   replayLog |-> replayLog, engineLog |-> engineLog, writeLog |-> writeLog,
   successLog |-> successLog,
   nWrites |-> nWrites, nCloses |-> nCloses, nObs |-> nObs, nReg |-> nReg, granted |-> granted,
   trace |-> <<>>, depth |-> 0, reWrite |-> <<>>]

\* The session has failed or was closed.
Dead == error(Cur) \/ transport = "closed"

Commit(n) ==
  /\ Dead => nAfter < MaxStepsAfterError
  /\ nAfter' = IF Dead THEN nAfter + 1 ELSE nAfter
  /\ callback_' = n.callback_
  /\ sni_' = n.sni_
  /\ pskIdentity_' = n.pskIdentity_
  /\ earlyDataState_' = n.earlyDataState_
  /\ replaySafetyCallback_' = n.replaySafetyCallback_
  /\ earlyDataRejectionPolicy_' = n.earlyDataRejectionPolicy_
  /\ handshakeTimeout_' = n.handshakeTimeout_
  /\ reads' = n.reads
  /\ transport' = n.transport
  /\ pskCache' = n.pskCache
  /\ fizzClient_' = n.fizzClient_
  /\ hsLog' = n.hsLog
  /\ replayLog' = n.replayLog
  /\ engineLog' = n.engineLog
  /\ writeLog' = n.writeLog
  /\ successLog' = n.successLog
  /\ nWrites' = n.nWrites
  /\ nCloses' = n.nCloses
  /\ nObs' = n.nObs
  /\ nReg' = n.nReg
  /\ granted' = n.granted
  /\ trace' = n.trace

\* The two constructors: over a connected transport, or over a fresh socket.
Init ==
  /\ callback_ = <<>>
  /\ sni_ = <<>>
  /\ pskIdentity_ = <<>>
  /\ earlyDataState_ = <<>>
  /\ replaySafetyCallback_ = 0
  /\ earlyDataRejectionPolicy_ \in {FatalConnectionError, AutomaticResend}
  /\ handshakeTimeout_ = FALSE
  /\ reads = FALSE
  /\ transport \in {"good", "unconnected"}
  /\ pskCache \in SUBSET Hosts
  /\ fizzClient_ = [connected |-> FALSE, psk |-> FALSE, earlyReported |-> FALSE,
                    hsReported |-> FALSE, errReported |-> FALSE,
                    inError |-> FALSE, closed |-> FALSE]
  /\ hsLog = <<>>
  /\ replayLog = <<>>
  /\ engineLog = <<>>
  /\ writeLog = <<>>
  /\ successLog = <<>>
  /\ nWrites = 0
  /\ nCloses = 0
  /\ nAfter = 0
  /\ nObs = 0
  /\ nReg = 0
  /\ granted = 0
  /\ trace = <<>>

OptionalHosts == {<<>>} \cup {<<h>> : h \in Hosts}

\* ------------------------------------------------------------ actions
\* The application.
Connect ==
  \E sni \in OptionalHosts, pskIdentity \in OptionalHosts, timeout \in BOOLEAN,
     re \in ReentrantCalls :
    /\ nObs < MaxConnects
    /\ ~hasValue(callback_)
    /\ Commit(connect(Call([Cur EXCEPT !.nObs = @ + 1], "connect"),
                      [shape |-> "HandshakeCallback", obs |-> nObs + 1, re |-> re],
                      sni, pskIdentity, timeout))

ConnectSocket ==
  \E sni \in OptionalHosts, pskIdentity \in OptionalHosts, timeout \in BOOLEAN,
     re \in ReentrantCalls, underlyingSocket \in BOOLEAN :
    /\ nObs < MaxConnects
    /\ ~hasValue(callback_)
    /\ Commit(connectSocket(Call([Cur EXCEPT !.nObs = @ + 1], "connectSocket"),
                            [shape |-> "ConnectCallback", obs |-> nObs + 1, re |-> re],
                            sni, pskIdentity, timeout, underlyingSocket))

Write ==
  \E size \in Sizes :
    /\ nWrites < MaxWrites
    /\ Commit(SubmitWrite(Cur, size))

Close ==
  /\ nCloses < MaxCloses
  /\ Commit(close(Call([Cur EXCEPT !.nCloses = @ + 1], "close")))

CloseWithReset ==
  /\ nCloses < MaxCloses
  /\ Commit(closeWithReset(Call([Cur EXCEPT !.nCloses = @ + 1], "closeWithReset")))

CloseNow ==
  /\ nCloses < MaxCloses
  /\ Commit(closeNow(Call([Cur EXCEPT !.nCloses = @ + 1], "closeNow")))

SetReplaySafetyCallback ==
  /\ nReg < MaxReplayRegs
  /\ ~isReplaySafe(Cur)
  /\ Commit(setReplaySafetyCallback(Call([Cur EXCEPT !.nReg = @ + 1], "setReplaySafetyCallback"),
                                    nReg + 1))

\* setReplaySafetyCallback(nullptr), which line 194 allows in every state,
\* called while an observer is registered.
ClearReplaySafetyCallback ==
  /\ replaySafetyCallback_ # 0
  /\ Commit(setReplaySafetyCallback(Call(Cur, "setReplaySafetyCallback"), 0))

\* The transport and the timer.
ConnectSuccess ==
  /\ transport = "connecting"
  /\ Commit(connectSuccess(Call([Cur EXCEPT !.transport = "good"], "connectSuccess")))

ConnectErr ==
  /\ transport = "connecting"
  /\ Commit(connectErr(Call([Cur EXCEPT !.transport = "error"], "connectErr"), "NOT_OPEN"))

TransportErr ==
  /\ transport = "good"
  /\ Commit(transportError(Call([Cur EXCEPT !.transport = "error"], "transportError"),
                           "NETWORK_ERROR"))

HandshakeTimeout ==
  /\ handshakeTimeout_
  /\ Commit(handshakeTimeoutExpired(Call(Cur, "handshakeTimeoutExpired")))

\* The engine's actions.
ReportEarlyHandshakeSuccess ==
  \E maxEarlyDataSize \in Budgets :
    /\ fizzClient_.connected /\ fizzClient_.psk
    /\ ~fizzClient_.earlyReported /\ ~fizzClient_.hsReported /\ ~fizzClient_.inError
    /\ Commit(OnReportEarlyHandshakeSuccess(
                Call([Cur EXCEPT !.fizzClient_.earlyReported = TRUE,
                                 !.granted = maxEarlyDataSize],
                     "ReportEarlyHandshakeSuccess"),
                maxEarlyDataSize))

ReportHandshakeSuccess ==
  \E earlyDataAccepted \in BOOLEAN, paramsMatch \in BOOLEAN :
    /\ fizzClient_.connected /\ ~fizzClient_.hsReported
    /\ earlyDataAccepted => fizzClient_.earlyReported
    /\ Commit(OnReportHandshakeSuccess(
                Emit([Cur EXCEPT !.fizzClient_.hsReported = TRUE], "ReportHandshakeSuccess",
                     IF paramsMatch THEN 1 ELSE 0,
                     IF earlyDataAccepted THEN "accepted" ELSE "rejected"),
                earlyDataAccepted, paramsMatch))

ReportError ==
  /\ fizzClient_.connected /\ ~fizzClient_.errReported
  /\ Commit(OnReportError(Call([Cur EXCEPT !.fizzClient_.errReported = TRUE], "ReportError")))

\* The engine gives back an early write it did not send as early data; it
\* does so at most once for a write.
ReportEarlyWriteFailed ==
  \E i \in DOMAIN engineLog :
    /\ Len(successLog) < MaxEarlyWriteFailed
    /\ fizzClient_.connected
    /\ engineLog[i].kind = "early"
    /\ \A j \in DOMAIN successLog : successLog[j] # engineLog[i].id
    /\ Commit(OnReportEarlyWriteFailed(Call(Cur, "ReportEarlyWriteFailed"),
                                       [callback |-> engineLog[i].id, data |-> engineLog[i].data]))

\* The engine asks for more data while its handshake is running.
WaitForData ==
  /\ fizzClient_.connected /\ ~fizzClient_.hsReported /\ ~fizzClient_.inError
  /\ Commit(OnWaitForData(Call(Cur, "WaitForData")))

\* A session ticket, which the engine delivers once the handshake is done.
NewCachedPsk ==
  /\ fizzClient_.connected /\ fizzClient_.hsReported /\ ~fizzClient_.inError
  /\ Commit(OnNewCachedPsk(Call(Cur, "NewCachedPsk")))

Next ==
  \/ Connect
  \/ ConnectSocket
  \/ Write
  \/ Close
  \/ CloseWithReset
  \/ CloseNow
  \/ SetReplaySafetyCallback
  \/ ClearReplaySafetyCallback
  \/ ConnectSuccess
  \/ ConnectErr
  \/ TransportErr
  \/ HandshakeTimeout
  \/ ReportEarlyHandshakeSuccess
  \/ ReportHandshakeSuccess
  \/ ReportError
  \/ ReportEarlyWriteFailed
  \/ WaitForData
  \/ NewCachedPsk

Spec == Init /\ [][Next]_vars

\* The same session when the application may call connect again while the
\* handshake its first connect started is still running and the observer of
\* that connect has been notified (early handshake success).  The observer
\* of the second connect returns without calling the session.
MaxReconnects == 1

ConnectAgain ==
  \E sni \in OptionalHosts, pskIdentity \in OptionalHosts, timeout \in BOOLEAN :
    /\ nObs >= MaxConnects /\ nObs < MaxConnects + MaxReconnects
    /\ ~hasValue(callback_)
    /\ fizzClient_.connected /\ ~fizzClient_.hsReported
    /\ ~error(Cur) /\ transport # "closed"
    /\ Commit(connect(Call([Cur EXCEPT !.nObs = @ + 1], "connect"),
                      [shape |-> "HandshakeCallback", obs |-> nObs + 1, re |-> "none"],
                      sni, pskIdentity, timeout))

ConnectSocketAgain ==
  \E sni \in OptionalHosts, pskIdentity \in OptionalHosts, timeout \in BOOLEAN,
     underlyingSocket \in BOOLEAN :
    /\ nObs >= MaxConnects /\ nObs < MaxConnects + MaxReconnects
    /\ ~hasValue(callback_)
    /\ fizzClient_.connected /\ ~fizzClient_.hsReported
    /\ ~error(Cur) /\ transport # "closed"
    /\ Commit(connectSocket(Call([Cur EXCEPT !.nObs = @ + 1], "connectSocket"),
                            [shape |-> "ConnectCallback", obs |-> nObs + 1, re |-> "none"],
                            sni, pskIdentity, timeout, underlyingSocket))

NextReconnect ==
  \/ Next
  \/ ConnectAgain
  \/ ConnectSocketAgain

SpecReconnect == Init /\ [][NextReconnect]_vars

\* The same session when the application's callbacks (a queued write's
\* writeErr, the handshake observer, onReplaySafe) may call write() while a
\* ReportHandshakeSuccess action is being processed (lines 452-493).
ReportHandshakeSuccessReentrant ==
  \E earlyDataAccepted \in BOOLEAN, paramsMatch \in BOOLEAN, size \in Sizes :
    /\ fizzClient_.connected /\ ~fizzClient_.hsReported
    /\ earlyDataAccepted => fizzClient_.earlyReported
    /\ Commit(OnReportHandshakeSuccess(
                Emit([Cur EXCEPT !.fizzClient_.hsReported = TRUE, !.reWrite = <<size>>],
                     "ReportHandshakeSuccess",
                     IF paramsMatch THEN 1 ELSE 0,
                     IF earlyDataAccepted THEN "accepted" ELSE "rejected"),
                earlyDataAccepted, paramsMatch))

NextReentrantWrite ==
  \/ Next
  \/ ReportHandshakeSuccessReentrant

SpecReentrantWrite == Init /\ [][NextReentrantWrite]_vars

\* ------------------------------------------------- reading the history
HasEvent(tr, name) == \E i \in DOMAIN tr : tr[i].e = name

Events(tr, name) == SelectSeq(tr, LAMBDA ev : ev.e = name)

\* The identifiers carried by the events called name, in order.
EventIds(tr, name) == [i \in DOMAIN Events(tr, name) |-> Events(tr, name)[i].id]

Count(seq, x) == Cardinality({i \in DOMAIN seq : seq[i] = x})

Range(seq) == {seq[i] : i \in DOMAIN seq}

\* ------------------------------------------------------------- claims
\* C1: the observer registered by a connect is notified at most once in
\* total, success or error, whatever the order of early success, handshake
\* success, engine error, transport error, connect error, timeout and close
\* calls; and callback_ is already empty when the observer is entered, so a
\* call it makes back into the session cannot notify it again.
C1_ObserverAtMostOnce ==
  /\ \A i, j \in DOMAIN hsLog : hsLog[i].obs = hsLog[j].obs => i = j
  /\ \A i \in DOMAIN hsLog : hsLog[i].sinkEmpty

\* An observer that closes the session from inside its error notification
\* was notified, and handshake success was reported after that.
C1_Witness ==
  /\ \E i \in DOMAIN hsLog : hsLog[i].kind = "error"
  /\ trace[1].e = "ReportHandshakeSuccess"
  /\ fizzClient_.closed

\* The early data state of the current state, where there is one.
Present == hasValue(earlyDataState_)

Pending == IF Present THEN earlyDataState_[1].pendingAppWrites ELSE <<>>

PendingIds == [i \in DOMAIN Pending |-> Pending[i].callback]

\* How many times write number id was handed to the engine on its own, and
\* how many times the session completed its callback with an error.
Handed(id) == Cardinality({i \in DOMAIN engineLog : engineLog[i].id = id})

Failed(id) == Count(writeLog, id)

WriteIds == 1..nWrites

\* C2, first half: no write is both handed to the engine and failed by the
\* session, and none is handed or failed twice.
C2_OnePlace ==
  \A id \in WriteIds : Handed(id) + Failed(id) + Count(PendingIds, id) = 1

\* C2: every accepted write is consumed exactly once, handed to the engine
\* or failed by the session, never both and never twice; and once the
\* handshake has resolved, the session has failed or a close call was made,
\* no accepted write is left in the pending queue without a completion.
C2_ConsumedExactlyOnce ==
  /\ C2_OnePlace
  /\ (fizzClient_.hsReported \/ error(Cur) \/ nCloses > 0) => Pending = <<>>

\* C3: while the early data state is present the remaining budget stays
\* within 0 .. the granted budget (a subtraction never wraps), a step never
\* raises it, and once it is 0 it stays 0.
C3_BudgetNeverWraps ==
  /\ [](Present => earlyDataState_[1].remainingEarlyData \in 0..granted)
  /\ [][Present /\ Present'
          => /\ earlyDataState_[1].remainingEarlyData' <= earlyDataState_[1].remainingEarlyData
             /\ earlyDataState_[1].remainingEarlyData = 0
                  => earlyDataState_[1].remainingEarlyData' = 0]_vars

\* The budget was spent in part by an early write and then forced to 0 by
\* a write that did not fit; a further write queued behind it.
C3_Witness ==
  /\ Present
  /\ earlyDataState_[1].remainingEarlyData = 0
  /\ \E i \in DOMAIN engineLog :
        engineLog[i].kind = "early" /\ computeChainDataLength(engineLog[i].data) \in 1..(granted - 1)
  /\ Len(Pending) >= 2

\* A step in which the application submits a write of this size while the
\* early data state is present and the session has not failed.
EarlyPhaseWrite(size) ==
  /\ Present /\ ~error(Cur)
  /\ trace' # <<>>
  /\ trace'[1].e = "write" /\ trace'[1].id = size

EarlyEntries(log) == SelectSeq(log, LAMBDA en : en.kind = "early")

\* The decision writeAppData takes for a write the application submits from
\* the event loop while the early data state is present: queued, with the
\* remaining budget forced to 0, exactly when the queue is non-empty or the
\* payload is larger than the remaining budget; otherwise handed to the
\* engine as an early write and its size subtracted.
C4_DecisionRule ==
  [][\A size \in Sizes : EarlyPhaseWrite(size) =>
       LET eds == earlyDataState_[1]
           w == [callback |-> nWrites', data |-> Payload(nWrites', size)]
       IN /\ Present'
          /\ IF eds.pendingAppWrites # <<>> \/ size > eds.remainingEarlyData
             THEN /\ earlyDataState_[1].pendingAppWrites' = Append(eds.pendingAppWrites, w)
                  /\ earlyDataState_[1].remainingEarlyData' = 0
                  /\ engineLog' = engineLog
             ELSE /\ earlyDataState_[1].pendingAppWrites' = <<>>
                  /\ earlyDataState_[1].remainingEarlyData' = eds.remainingEarlyData - size
                  /\ engineLog' = Append(engineLog, [kind |-> "early", id |-> w.callback, data |-> w.data])]_vars

\* C4: while the early data state is present a write is queued, and the
\* remaining budget forced to 0, exactly when the queue is non-empty or the
\* payload is larger than the remaining budget; otherwise it goes to the
\* engine as an early write and its size is subtracted.  Hence once a write
\* is queued (it is still queued, or the session has failed since) no later
\* write goes to the engine as an early write while the state exists, a
\* write made from inside a callback included.
C4_QueueOrSendEarly ==
  /\ C4_DecisionRule
  /\ [][Present /\ Present' /\ (Pending # <<>> \/ writeLog # <<>>)
          => EarlyEntries(engineLog') = EarlyEntries(engineLog)]_vars

\* An early write went out, a second write was queued behind it, and a
\* third, small enough for what the budget had left, was queued as well.
C4_Witness ==
  /\ Present
  /\ Len(EarlyEntries(engineLog)) = 1
  /\ Len(Pending) = 2
  /\ computeChainDataLength(Pending[2].data) + computeChainDataLength(engineLog[Len(engineLog)].data) <= granted

\* The write numbers of the buffers of a payload.
BufferIds(data) == {data[i].id : i \in DOMAIN data}

IsResend(en) == en.kind = "app" /\ en.id = 0

\* C5: writes reach the engine in the order they were submitted: the
\* engine's log lists the writes handed over one by one in increasing
\* submission order; a resend write carries, in submission order, early
\* writes that went out before it, and comes before every write submitted
\* after them; and the queue holds, in submission order, writes submitted
\* after everything the engine has.
C5_SubmissionOrder ==
  /\ \A i, j \in DOMAIN engineLog :
        (i < j /\ ~IsResend(engineLog[i]) /\ ~IsResend(engineLog[j]))
          => engineLog[i].id < engineLog[j].id
  /\ \A r \in DOMAIN engineLog : IsResend(engineLog[r]) =>
        LET data == engineLog[r].data
        IN /\ \A a, b \in DOMAIN data : a < b => data[a].id < data[b].id
           /\ \A a \in DOMAIN data : \E i \in 1..(r - 1) :
                 engineLog[i].kind = "early" /\ engineLog[i].id = data[a].id
           /\ \A j \in DOMAIN engineLog : \A b \in BufferIds(data) :
                 (j > r => engineLog[j].id > b) /\
                 ((j < r /\ engineLog[j].kind = "app") => engineLog[j].id < b)
  /\ \A i, j \in DOMAIN Pending : i < j => Pending[i].callback < Pending[j].callback
  /\ \A i \in DOMAIN Pending : \A j \in DOMAIN engineLog :
        /\ engineLog[j].id < Pending[i].callback
        /\ \A b \in BufferIds(engineLog[j].data) : b < Pending[i].callback

\* Early data was rejected and resent: the engine got an early write, the
\* resend write carrying it, and then two queued writes, drained.
C5_Witness ==
  /\ Len(engineLog) = 4
  /\ engineLog[1].kind = "early"
  /\ IsResend(engineLog[2]) /\ BufferIds(engineLog[2].data) = {engineLog[1].id}
  /\ engineLog[3].kind = "app" /\ engineLog[4].kind = "app"
  /\ trace # <<>> /\ trace[1].e = "ReportHandshakeSuccess"

\* A step in which the engine reports handshake success with early data
\* not accepted, while the early data state is present.
EarlyDataRejectedStep ==
  /\ Present
  /\ trace' # <<>>
  /\ trace'[1].e = "ReportHandshakeSuccess" /\ trace'[1].x = "rejected"

PskEvicted == hasValue(pskIdentity_) /\ pskIdentity_[1] \notin pskCache'

\* No PSK is cached any more for the PSK identity the session holds, if it
\* holds one.
NoPskForIdentity == hasValue(pskIdentity_) => pskIdentity_[1] \notin pskCache'

ClosedNow == transport' = "closed" /\ HasEvent(trace', "transport.closeNow")

\* C6: under FatalConnectionError, when handshake success reports early
\* data not accepted while the early data state is present, every queued
\* write has its callback completed with EarlyDataRejected, in queue order,
\* and none goes to the engine; the cached PSK of the PSK identity is
\* removed; the transport is closed at once; and neither the handshake
\* observer's success nor the replay-safety observer is invoked.
C6_FatalRejection ==
  [][(EarlyDataRejectedStep /\ earlyDataRejectionPolicy_ = FatalConnectionError) =>
      /\ EventIds(trace', "writeErr") = PendingIds
      /\ \A i \in DOMAIN trace' :
            trace'[i].e = "writeErr" => trace'[i].x = "EARLY_DATA_REJECTED"
      /\ engineLog' = engineLog
      /\ NoPskForIdentity
      /\ ClosedNow
      /\ ~HasEvent(trace', "observer.success")
      /\ ~HasEvent(trace', "onReplaySafe") /\ replayLog' = replayLog]_vars

\* A fatal rejection has just failed two queued writes, evicted the PSK
\* and closed the transport.
C6_Witness ==
  /\ earlyDataRejectionPolicy_ = FatalConnectionError
  /\ trace # <<>>
  /\ trace[1].e = "ReportHandshakeSuccess" /\ trace[1].x = "rejected"
  /\ Len(Events(trace, "writeErr")) = 2
  /\ HasEvent(trace, "removePsk")
  /\ transport = "closed"

\* The scenario of C7: budget 100, write 1 of 40 bytes sent as early data,
\* write 2 of 80 bytes queued, no failure and no close so far.
C7_Scenario ==
  /\ earlyDataRejectionPolicy_ = FatalConnectionError
  /\ Present /\ ~error(Cur) /\ nCloses = 0
  /\ granted = 100
  /\ engineLog = <<[kind |-> "early", id |-> 1, data |-> Payload(1, 40)]>>
  /\ Pending = <<[callback |-> 2, data |-> Payload(2, 80)]>>

RejectedWith(tr, id) ==
  \E i \in DOMAIN tr :
    tr[i].e = "writeErr" /\ tr[i].id = id /\ tr[i].x = "EARLY_DATA_REJECTED"

\* C7 as stated: in the scenario, when early data is rejected, the callbacks
\* of both writes, the early one and the queued one, receive
\* EarlyDataRejected, the transport is closed and the PSK is evicted.
C7_BothWritesRejected ==
  [][(C7_Scenario /\ EarlyDataRejectedStep) =>
      /\ RejectedWith(trace', 1) /\ RejectedWith(trace', 2)
      /\ ClosedNow
      /\ PskEvicted]_vars

\* C7 amended: in the scenario, when early data is rejected, the callback
\* of the queued write alone receives EarlyDataRejected; the session
\* completes nothing for the early write, which the engine holds; the
\* transport is closed and the PSK is evicted.
C7_QueuedWriteRejected ==
  [][(C7_Scenario /\ EarlyDataRejectedStep) =>
      /\ RejectedWith(trace', 2)
      /\ EventIds(trace', "writeErr") = <<2>>
      /\ writeLog' = <<2>>
      /\ engineLog' = engineLog
      /\ ClosedNow
      /\ PskEvicted]_vars

\* The scenario has run to its end.
C7_Witness ==
  /\ earlyDataRejectionPolicy_ = FatalConnectionError
  /\ granted = 100
  /\ engineLog = <<[kind |-> "early", id |-> 1, data |-> Payload(1, 40)]>>
  /\ trace # <<>>
  /\ trace[1].e = "ReportHandshakeSuccess" /\ trace[1].x = "rejected"
  /\ EventIds(trace, "writeErr") = <<2>>
  /\ nWrites = 2 /\ nCloses = 0
  /\ transport = "closed"

\* The payloads of the early writes of a log, one after the other.
RECURSIVE EarlyPayloads(_)
EarlyPayloads(log) ==
  IF log = <<>> THEN <<>>
  ELSE IF Head(log).kind = "early"
  THEN Head(log).data \o EarlyPayloads(Tail(log))
  ELSE EarlyPayloads(Tail(log))

\* The queue, as the ordinary writes the engine gets when it is drained.
Drained ==
  [i \in DOMAIN Pending |-> [kind |-> "app", id |-> Pending[i].callback, data |-> Pending[i].data]]

\* C8: under AutomaticResend, when early data is rejected and the early
\* parameters match: if early writes carried any byte, the engine gets
\* exactly one ordinary write, with no callback, whose bytes are the
\* payloads of the early writes in the order they were sent, and after it
\* the queued writes as ordinary writes in queue order; if they carried no
\* byte the engine gets the queued writes only.
C8_AutomaticResend ==
  [][(/\ EarlyDataRejectedStep
      /\ earlyDataRejectionPolicy_ = AutomaticResend
      /\ trace'[1].id = 1) =>
      IF computeChainDataLength(EarlyPayloads(engineLog)) > 0
      THEN /\ ~IOBufQueueEmpty(earlyDataState_[1].resendBuffer)
           /\ Len(engineLog') = Len(engineLog) + 1 + Len(Pending)
           /\ LET resend == engineLog'[Len(engineLog) + 1]
              IN /\ IsResend(resend)
                 /\ Content(resend.data) = Content(EarlyPayloads(engineLog))
                 /\ engineLog' = engineLog \o <<resend>> \o Drained
      ELSE /\ IOBufQueueEmpty(earlyDataState_[1].resendBuffer)
           /\ engineLog' = engineLog \o Drained]_vars

\* Two early writes were rejected and resent as one write, and the queued
\* write followed.
C8_Witness ==
  /\ earlyDataRejectionPolicy_ = AutomaticResend
  /\ trace # <<>>
  /\ trace[1].e = "ReportHandshakeSuccess" /\ trace[1].x = "rejected"
  /\ Len(engineLog) = 4
  /\ engineLog[1].kind = "early" /\ engineLog[2].kind = "early"
  /\ IsResend(engineLog[3]) /\ engineLog[3].data = engineLog[1].data \o engineLog[2].data
  /\ engineLog[4] = [kind |-> "app", id |-> 3, data |-> Payload(3, 80)]

\* C9: the early data state is present, and isReplaySafe() false, exactly
\* between the engine's early success report and its handshake success
\* report: absent before the first, absent after the second whether early
\* data was accepted, resent or fatally rejected.
C9_PresentUntilResolution ==
  /\ Present <=> (fizzClient_.earlyReported /\ ~fizzClient_.hsReported)
  /\ isReplaySafe(Cur) <=> ~Present

\* C10: a registered replay-safety observer is notified at most once, only
\* by a handshake success report that does not run the error fan-out, and
\* replaySafetyCallback_ is already cleared when it is entered; every error
\* fan-out clears it without notifying it, and a cleared observer is never
\* notified.
C10_ReplaySafetyOnce ==
  /\ [](/\ \A i, j \in DOMAIN replayLog : replayLog[i].reg = replayLog[j].reg => i = j
        /\ \A i \in DOMAIN replayLog : replayLog[i].field = 0)
  /\ [][replayLog' # replayLog =>
          /\ replaySafetyCallback_ # 0
          /\ replayLog' = Append(replayLog, [reg |-> replaySafetyCallback_, field |-> 0])
          /\ trace'[1].e = "ReportHandshakeSuccess"
          /\ ~HasEvent(trace', "deliverAllErrors")]_vars
  /\ [][(trace' # <<>> /\ HasEvent(trace', "deliverAllErrors")) =>
          /\ replaySafetyCallback_' = 0
          /\ replayLog' = replayLog]_vars

\* A registered observer was notified by the handshake success report
\* that accepted the early data.
C10_Witness ==
  /\ replayLog # <<>>
  /\ replaySafetyCallback_ = 0
  /\ trace # <<>>
  /\ trace[1].e = "ReportHandshakeSuccess" /\ trace[1].x = "accepted"

\* A step in which the application calls close, closeWithReset or closeNow.
CloseCallStep ==
  /\ trace' # <<>>
  /\ trace'[1].e \in {"close", "closeWithReset", "closeNow"}

TransportCloseEvents == {"transport.close", "transport.closeWithReset", "transport.closeNow"}

\* The queued writes are all failed with END_OF_FILE, in queue order, and
\* after the last of them the transport is closed.
QueuedWritesFailedThenClosed ==
  /\ EventIds(trace', "writeErr") = PendingIds
  /\ \A i \in DOMAIN trace' : trace'[i].e = "writeErr" => trace'[i].x = "END_OF_FILE"
  /\ \E c \in DOMAIN trace' :
        /\ trace'[c].e \in TransportCloseEvents
        /\ \A i \in DOMAIN trace' : trace'[i].e = "writeErr" => i < c
  /\ transport' = "closed"

\* C11: each of close(), closeWithReset() and closeNow(), called while
\* writes are queued in the early data state, completes every queued
\* write's callback with EndOfFile and then closes the transport.
C11_CloseFailsQueuedWrites ==
  [][(CloseCallStep /\ Pending # <<>>) => QueuedWritesFailedThenClosed]_vars

\* C11 without close(): closeWithReset() and closeNow() do so.
C11_ResetAndNowFailQueuedWrites ==
  [][(CloseCallStep /\ trace'[1].e # "close" /\ Pending # <<>>)
       => QueuedWritesFailedThenClosed]_vars

\* A step in which the application submits a write.
WriteCallStep == trace' # <<>> /\ trace'[1].e = "write"

\* C12: the error fan-out leaves the engine in its error state, which it
\* never leaves, so error() holds in every later state; and a write
\* submitted while error() holds has its callback completed with
\* InvalidState at once, is neither handed to the engine nor queued, and
\* leaves the early data state (budget, queue, resend buffer) as it was.
C12_ErrorIsPermanent ==
  /\ [](fizzClient_.inError => error(Cur))
  /\ [][(trace' # <<>> /\ HasEvent(trace', "deliverAllErrors")) => fizzClient_.inError']_vars
  /\ [][fizzClient_.inError => fizzClient_.inError']_vars
  /\ [][(WriteCallStep /\ error(Cur)) =>
          /\ Events(trace', "writeErr") =
                <<[e |-> "writeErr", id |-> nWrites', x |-> "INVALID_STATE"]>>
          /\ writeLog' = Append(writeLog, nWrites')
          /\ engineLog' = engineLog
          /\ earlyDataState_' = earlyDataState_]_vars

\* After an engine error during the early data phase, with budget left, a
\* write was failed with InvalidState.
C12_Witness ==
  /\ Present /\ earlyDataState_[1].remainingEarlyData > 0
  /\ fizzClient_.errReported
  /\ trace # <<>> /\ trace[1].e = "write"
  /\ \E i \in DOMAIN trace : trace[i].e = "writeErr" /\ trace[i].x = "INVALID_STATE"

\* The observer of the last connect has been notified.
SinkResolved == nObs > 0 /\ ~hasValue(callback_)

\* C13: in every state in which the handshake observer has been notified
\* (early success, success, error or timeout) the handshake timer is not
\* scheduled.
C13_TimerOffOnceResolved == SinkResolved => ~handshakeTimeout_

\* C13 apart from early success: a timer still scheduled after the
\* observer was notified was left so by an early success report.
C13_TimerLeftByEarlySuccess ==
  (SinkResolved /\ handshakeTimeout_) =>
    (fizzClient_.earlyReported /\ hsLog[Len(hsLog)].kind = "success")

\* A step in which the engine reports handshake success with early data
\* accepted, while the early data state is present.
EarlyDataAcceptedStep ==
  /\ Present
  /\ trace' # <<>>
  /\ trace'[1].e = "ReportHandshakeSuccess" /\ trace'[1].x = "accepted"

\* C14: when handshake success reports early data accepted while the early
\* data state is present, the engine gets the queued writes as ordinary
\* writes in queue order and nothing else (no resend write, whatever the
\* resend buffer holds), the session fails no write callback, and the
\* early data state is absent afterwards.
C14_AcceptedDrainsQueue ==
  [][EarlyDataAcceptedStep =>
      /\ engineLog' = engineLog \o Drained
      /\ ~HasEvent(trace', "writeErr") /\ writeLog' = writeLog
      /\ ~Present']_vars

\* Early data was accepted with bytes in the resend buffer: the engine has
\* the early write and the drained write, and no resend write.
C14_Witness ==
  /\ earlyDataRejectionPolicy_ = AutomaticResend
  /\ trace # <<>>
  /\ trace[1].e = "ReportHandshakeSuccess" /\ trace[1].x = "accepted"
  /\ Len(engineLog) = 2
  /\ engineLog[1].kind = "early" /\ computeChainDataLength(engineLog[1].data) > 0
  /\ engineLog[2].kind = "app" /\ engineLog[2].id = 2
  /\ ~Present

\* A step in which the application calls one of the two connect shapes.
ConnectCallStep ==
  /\ trace' # <<>>
  /\ trace'[1].e \in {"connect", "connectSocket"}

\* An earlier connect attempt has neither completed its handshake nor
\* failed.
AttemptUnresolved ==
  /\ nObs > 0
  /\ ~fizzClient_.hsReported
  /\ ~error(Cur) /\ transport # "closed"

\* C15: a connect call made while an earlier connect attempt has not fully
\* resolved, early handshake success included, changes nothing: not the
\* registered observer, not the handshake timer, not the captured SNI and
\* PSK identity, and the engine's connect is not invoked again.
C15_ConnectWhileUnresolvedChangesNothing ==
  [][(ConnectCallStep /\ AttemptUnresolved) =>
      /\ callback_' = callback_
      /\ sni_' = sni_ /\ pskIdentity_' = pskIdentity_
      /\ handshakeTimeout_' = handshakeTimeout_
      /\ ~HasEvent(trace', "startHandshakeTimeout")
      /\ ~HasEvent(trace', "fizzClient.connect")]_vars

\* The first position after from of an event of tr named in names, or 0.
FirstIdx(tr, names, from) ==
  LET found == {i \in DOMAIN tr : i > from /\ tr[i].e \in names}
  IN IF found = {} THEN 0 ELSE CHOOSE i \in found : \A j \in found : i <= j

\* The stage of deliverAllErrors an event belongs to, 0 for other events.
Stage(e) ==
  IF e \in {"cancelHandshakeTimeout", "observer.error"} THEN 1
  ELSE IF e = "replaySafetyCallback.clear" THEN 2
  ELSE IF e = "writeErr" THEN 3
  ELSE IF e = "moveToErrorState" THEN 4
  ELSE IF e = "deliverError" THEN 5
  ELSE IF e = "transport.close" THEN 6
  ELSE 0

\* The events of tr at the positions in own come stage after stage.
InStageOrder(tr, own) ==
  \A i, j \in own :
    (Stage(tr[i].e) > 0 /\ Stage(tr[j].e) > 0 /\ Stage(tr[i].e) < Stage(tr[j].e)) => i < j

\* Every deliverAllErrors call recorded in tr ran its stages in order.  A
\* step holds at most two calls: one after the other, or the second made by
\* the observer (through closeNow) while the first notifies it.
FanOutsInOrder(tr) ==
  LET d1 == FirstIdx(tr, {"deliverAllErrors"}, 0)
      d2 == FirstIdx(tr, {"deliverAllErrors"}, d1)
      o == FirstIdx(tr, {"observer.error"}, d1)
      c == FirstIdx(tr, {"transport.closeNow"}, d2)
      nested == d2 # 0 /\ o # 0 /\ o < d2
  IN /\ Len(Events(tr, "deliverAllErrors")) <= 2
     /\ IF d2 = 0
        THEN InStageOrder(tr, {i \in DOMAIN tr : i > d1})
        ELSE IF nested
        THEN /\ c # 0
             /\ InStageOrder(tr, {i \in DOMAIN tr : d2 < i /\ i < c})
             /\ InStageOrder(tr, {i \in DOMAIN tr : (d1 < i /\ i <= o) \/ i > c})
        ELSE /\ InStageOrder(tr, {i \in DOMAIN tr : d1 < i /\ i < d2})
             /\ InStageOrder(tr, {i \in DOMAIN tr : i > d2})

\* A step that runs deliverAllErrors.
FanOutStep == trace' # <<>> /\ HasEvent(trace', "deliverAllErrors")

\* C16, the order: within a deliverAllErrors call the handshake observer is
\* failed (if pending, with the timer cancelled), then the replay-safety
\* observer is cleared, then the queued writes are failed in queue order,
\* then the engine is moved to its error state, then the error goes to the
\* general consumer, which may close the transport.
C16_FanOutOrder ==
  [][FanOutStep =>
      /\ FanOutsInOrder(trace')
      /\ EventIds(trace', "writeErr") = PendingIds
      /\ replaySafetyCallback_ # 0 => HasEvent(trace', "replaySafetyCallback.clear")
      /\ HasEvent(trace', "moveToErrorState") /\ HasEvent(trace', "deliverError")]_vars

\* C16: the order above, and the handshake timer is not scheduled after a
\* deliverAllErrors call even when the observer had been notified before.
C16_FanOutOrderAndTimer ==
  /\ C16_FanOutOrder
  /\ [][FanOutStep => ~handshakeTimeout_']_vars

\* What the same handshake success report does to the current state of a
\* session whose policy is FatalConnectionError.
UnderFatalPolicy ==
  OnReportHandshakeSuccess(
    Emit([Cur EXCEPT !.fizzClient_.hsReported = TRUE,
                     !.earlyDataRejectionPolicy_ = FatalConnectionError],
         "ReportHandshakeSuccess", 0, "rejected"),
    FALSE, FALSE)

\* C17: under AutomaticResend, when early data is rejected and the early
\* parameters do not match, the engine gets neither a resend write nor a
\* queued write, every queued write's callback is completed with
\* EarlyDataRejected, the transport is closed at once, and the step does
\* exactly what it does under FatalConnectionError, PSK eviction included.
C17_MismatchIsFatal ==
  [][(/\ EarlyDataRejectedStep
      /\ earlyDataRejectionPolicy_ = AutomaticResend
      /\ trace'[1].id = 0) =>
      /\ engineLog' = engineLog
      /\ EventIds(trace', "writeErr") = PendingIds
      /\ \A i \in DOMAIN trace' :
            trace'[i].e = "writeErr" => trace'[i].x = "EARLY_DATA_REJECTED"
      /\ ClosedNow
      /\ hasValue(pskIdentity_) <=> HasEvent(trace', "removePsk")
      /\ NoPskForIdentity
      /\ trace' = UnderFatalPolicy.trace
      /\ pskCache' = UnderFatalPolicy.pskCache
      /\ earlyDataState_' = UnderFatalPolicy.earlyDataState_
      /\ callback_' = UnderFatalPolicy.callback_
      /\ replaySafetyCallback_' = UnderFatalPolicy.replaySafetyCallback_
      /\ handshakeTimeout_' = UnderFatalPolicy.handshakeTimeout_
      /\ reads' = UnderFatalPolicy.reads
      /\ transport' = UnderFatalPolicy.transport
      /\ fizzClient_' = UnderFatalPolicy.fizzClient_
      /\ hsLog' = UnderFatalPolicy.hsLog /\ replayLog' = UnderFatalPolicy.replayLog
      /\ writeLog' = UnderFatalPolicy.writeLog
      /\ successLog' = UnderFatalPolicy.successLog]_vars

\* Under AutomaticResend a rejection with mismatching parameters failed a
\* queued write, resent nothing of the resend buffer, and evicted the PSK.
C17_Witness ==
  /\ earlyDataRejectionPolicy_ = AutomaticResend
  /\ trace # <<>>
  /\ trace[1].e = "ReportHandshakeSuccess" /\ trace[1].x = "rejected" /\ trace[1].id = 0
  /\ Present /\ ~IOBufQueueEmpty(earlyDataState_[1].resendBuffer)
  /\ HasEvent(trace, "writeErr") /\ HasEvent(trace, "removePsk")
  /\ engineLog = EarlyEntries(engineLog)
  /\ transport = "closed"

\* The step is a call or callback of this name.
StepIs(name) == trace' # <<>> /\ trace'[1].e = name

\* The observer is told of this error in the step.
ObserverFailedWith(ex) ==
  \E i \in DOMAIN trace' : trace'[i].e = "observer.error" /\ trace'[i].x = ex

\* C18: in the low-level connect shape the engine's connect is not invoked
\* by the connect call, so the engine is not connected while the transport
\* is unconnected or connecting; connectSuccess installs the read callback
\* and then invokes the engine's connect, once; connectErr does not invoke
\* it and fails the observer with the connect error, a missing underlying
\* socket fails it with BAD_ARGS; and the transport does not go back to
\* connecting, so the engine's connect is invoked at most once per attempt.
C18_EngineConnectOnConnectSuccess ==
  /\ [](transport \in {"unconnected", "connecting"} => ~fizzClient_.connected)
  /\ [][StepIs("connectSocket") =>
          /\ ~HasEvent(trace', "fizzClient.connect")
          /\ fizzClient_.connected' = fizzClient_.connected
          /\ HasEvent(trace', "deliverAllErrors") =>
                (ObserverFailedWith("BAD_ARGS") \/ ObserverFailedWith("ALREADY_OPEN"))
          /\ ~HasEvent(trace', "socket.connect") => HasEvent(trace', "deliverAllErrors")]_vars
  /\ [][StepIs("connectSuccess") =>
          /\ Len(Events(trace', "fizzClient.connect")) = 1
          /\ FirstIdx(trace', {"startTransportReads"}, 0) # 0
          /\ FirstIdx(trace', {"startTransportReads"}, 0)
               < FirstIdx(trace', {"fizzClient.connect"}, 0)
          /\ fizzClient_.connected']_vars
  /\ [][StepIs("connectErr") =>
          /\ ~HasEvent(trace', "fizzClient.connect")
          /\ ~fizzClient_.connected'
          /\ hasValue(callback_) => ObserverFailedWith("NOT_OPEN")]_vars
  /\ [][fizzClient_.connected' # fizzClient_.connected =>
          (StepIs("connect") \/ StepIs("connectSuccess"))]_vars
  /\ [][transport \notin {"unconnected", "connecting"} => transport' # "connecting"]_vars

\* The low-level connect completed: connectSuccess installed the read
\* callback and connected the engine while the observer is still pending.
C18_Witness ==
  /\ trace # <<>> /\ trace[1].e = "connectSuccess"
  /\ hasValue(callback_) /\ callback_[1].shape = "ConnectCallback"
  /\ reads /\ fizzClient_.connected
  /\ transport = "good"

\* The bytes handed to the engine as early writes.
EarlySum == computeChainDataLength(EarlyPayloads(engineLog))

\* The early bytes sent and the remaining budget add up to the grant.
Balanced == Present /\ EarlySum = granted - earlyDataState_[1].remainingEarlyData

\* C19: the bytes handed to the engine as early writes never exceed the
\* granted budget; they equal the granted budget minus the remaining
\* budget from the early success report on, for as long as no write is
\* queued (only the step that queues a write ends the equality).
C19_EarlyBytesWithinBudget ==
  /\ [](EarlySum <= granted)
  /\ [][StepIs("ReportEarlyHandshakeSuccess") => Balanced']_vars
  /\ [][(Balanced /\ Present' /\ Len(Pending') <= Len(Pending)) => Balanced']_vars

\* Two early writes have used up the whole budget; nothing was queued.
C19_Witness ==
  /\ Balanced
  /\ Len(EarlyEntries(engineLog)) = 2
  /\ EarlySum = granted /\ granted > 0
  /\ Pending = <<>>
\* ------------------------------------------------- C20
\* The writes submitted by callbacks during the step: their numbers.
ReentrantWrites == (nWrites + 1) .. nWrites'

\* The entries the step appended to the Engine's log.
NewEngineEntries == SubSeq(engineLog', Len(engineLog) + 1, Len(engineLog'))

\* A write submitted by a callback during the step reaches the Engine, if at
\* all, as an ordinary write behind every write submitted before it.
ReentrantWritesOrdinaryAndLast ==
  /\ Len(engineLog') >= Len(engineLog)
  /\ SubSeq(engineLog', 1, Len(engineLog)) = engineLog
  /\ \A i \in DOMAIN NewEngineEntries : NewEngineEntries[i].kind = "app"
  /\ \A i, j \in DOMAIN NewEngineEntries :
       (i < j /\ NewEngineEntries[i].id \in ReentrantWrites)
         => NewEngineEntries[j].id \in ReentrantWrites
                /\ NewEngineEntries[i].id < NewEngineEntries[j].id

\* C20: once processing of a ReportHandshakeSuccess action has begun no write
\* is handed to the Engine as an early write, also not a write() called from
\* a callback that runs during that processing; such a write is forwarded as
\* an ordinary write after all writes submitted before it.
C20_NoEarlyWriteOnceResolving ==
  [][StepIs("ReportHandshakeSuccess") => ReentrantWritesOrdinaryAndLast]_vars

\* The same for the processing that does not end in the error fan-out:
\* accepted early data, the automatic resend, and a handshake without early
\* data.
C20_NoEarlyWriteUnlessFatal ==
  [][(StepIs("ReportHandshakeSuccess") /\ ~HasEvent(trace', "deliverAllErrors"))
       => ReentrantWritesOrdinaryAndLast]_vars

\* A callback's write during such processing reached the Engine.
C20_ReentrantForwarded ==
  /\ HasEvent(trace, "ReportHandshakeSuccess")
  /\ ~HasEvent(trace, "deliverAllErrors")
  /\ \E i \in DOMAIN trace : i > 1 /\ trace[i].e = "write"
  /\ engineLog # <<>> /\ engineLog[Len(engineLog)].id = nWrites
  /\ engineLog[Len(engineLog)].kind = "app"

====
